---- MODULE Spec2Model ----
(***************************************************************************)
(* Model of lib/airspy/airspy_source_c.cc: the hand-off of samples from    *)
(* the device callback (producer thread of the device layer) through the   *)
(* bounded FIFO to work() (consumer thread of the scheduler), together     *)
(* with start(), stop() and the destructor (lifecycle thread).             *)
(*                                                                         *)
(* Threads and their program counters:                                     *)
(*   ppc  producer, inside airspy_rx_callback                              *)
(*   cpc  consumer, inside work()                                          *)
(*   ctl  lifecycle caller, inside start()/stop()/~airspy_source_c()       *)
(* The device layer (libairspy) is the environment: it begins callbacks    *)
(* only while it is streaming, and a successful airspy_stop_rx returns     *)
(* only after the callback in flight has returned.                         *)
(***************************************************************************)
EXTENDS Integers, Sequences, FiniteSets, TLC

\* Bounds of the model.
Capacity   == 2   \* capacity of the circular buffer (5000000 in the source, scaled down)
MaxBatch   == 3   \* largest sample_count of one callback
MaxSamples == 4   \* samples the device delivers in one run

\* Values of the source.
NULL           == "NULL"
OPEN           == "open"
AIRSPY_SUCCESS == "AIRSPY_SUCCESS"
AIRSPY_ERROR   == "AIRSPY_ERROR"
NONE           == "none"

\* What work() returned: nothing yet, WORK_DONE, or the number of items.
NoReturn == [kind |-> "none", items |-> 0]
WORK_DONE == [kind |-> "WORK_DONE", items |-> 0]
Items(n) == [kind |-> "items", items |-> n]

Ret == {AIRSPY_SUCCESS, AIRSPY_ERROR}

\* noutput_items the scheduler may ask for: the code puts no limit on it.
BlockSizes == 1..(Capacity + 1)

VARIABLES
  dev,            \* _dev: OPEN or NULL
  streaming,      \* the device's own streaming state (airspy_is_streaming)
  fifo,           \* _fifo: the circular buffer's contents, oldest first
  fifo_freed,     \* _fifo has been deleted
  fifo_lock,      \* _fifo_lock: NONE, "producer" or "consumer"
  ppc,            \* producer position
  samples,        \* the raw interleaved I/Q floats of the callback in flight
  num_samples,    \* sample_count of the callback in flight
  to_copy,        \* to_copy of the callback in flight
  notified,       \* the callback in flight has called notify_one
  overrun,        \* the last finished callback printed "O"
  cpc,            \* consumer position
  noutput_items,  \* noutput_items of the work() in flight
  ret,            \* return value of the last finished work()
  ctl,            \* lifecycle caller position
  rx_ret,         \* return value of the airspy_stop_rx in flight
  last,           \* outcome of the last lifecycle call
  close_attempted,\* airspy_close has been called
  produced,       \* samples the device has delivered to callbacks so far
  accepted,       \* history: the samples the callbacks pushed, in order
  delivered,      \* history: the samples work() copied out, in order
  underrun,       \* work() has popped from an empty buffer
  waited,         \* history: the work() in flight, or the last one, has suspended
  quiesced,       \* history: stop() has returned true, and start() has not since
  sample_rate,    \* _sample_rate, in Hz
  center_freq,    \* _center_freq, in Hz
  freq_corr,      \* _freq_corr, in ppm
  auto_gain,      \* _auto_gain
  gain_policy,    \* _gain_policy: "linearity" or "sensitivity"
  gain,           \* _gain
  lna_gain,       \* _lna_gain
  mix_gain,       \* _mix_gain
  vga_gain,       \* _vga_gain
  hw,             \* the tuner's settings: what the accepted device commands left
  call,           \* the last control call: its name, argument, device commands, error
  ncalls          \* control calls made so far

vars == << dev, streaming, fifo, fifo_freed, fifo_lock, ppc, samples, num_samples,
           to_copy, notified, overrun, cpc, noutput_items, ret, ctl, rx_ret, last,
           close_attempted, produced, accepted, delivered, underrun, waited, quiesced,
           sample_rate, center_freq, freq_corr, auto_gain, gain_policy, gain,
           lna_gain, mix_gain, vga_gain, hw, call, ncalls >>

producerVars  == << ppc, samples, num_samples, to_copy, notified, overrun, produced, accepted >>
consumerVars  == << cpc, noutput_items, ret, delivered, underrun, waited >>
lifecycleVars == << dev, streaming, fifo_freed, ctl, rx_ret, last, close_attempted, quiesced >>
cachedVars    == << sample_rate, center_freq, freq_corr, auto_gain, gain_policy, gain,
                    lna_gain, mix_gain, vga_gain >>
ctrlVars      == << cachedVars, hw, call, ncalls >>

----------------------------------------------------------------------------
\* Samples.  The device's k-th sample arrives as the two floats 2k-1 (I) and
\* 2k (Q); the complex sample made of them is the pair.

Complex(k) == << 2 * k - 1, 2 * k >>

\* The raw buffer of a transfer holding samples first+1 .. first+count.
RECURSIVE Transfer(_, _)
Transfer(first, count) ==
  IF count = 0 THEN << >>
  ELSE Transfer(first, count - 1) \o << 2 * (first + count) - 1, 2 * (first + count) >>

\* The complex samples first+1 .. first+count.
RECURSIVE Stream(_, _)
Stream(first, count) ==
  IF count = 0 THEN << >> ELSE Append(Stream(first, count - 1), Complex(first + count))

----------------------------------------------------------------------------
\* boost::circular_buffer

\* push_back: a full buffer overwrites its oldest element.
push_back(buf, x) ==
  IF Len(buf) = Capacity THEN Tail(buf) \o << x >> ELSE Append(buf, x)

\* n_avail = _fifo->capacity() - _fifo->size()
n_avail(buf) == Capacity - Len(buf)

\* Variant of ToCopy: the batch is never truncated to the free space.
ToCopy_NoTruncate(avail, num) == num

\* Variant of ToCopy: a batch that does not fit whole is dropped whole.
ToCopy_AllOrNothing(avail, num) == IF avail < num THEN 0 ELSE num

\* to_copy = (n_avail < num_samples ? n_avail : num_samples)
ToCopy(avail, num) == IF avail < num THEN avail ELSE num

\* gr_complex( *sample, *(sample+1) ) for the i-th pair, sample += 2 per turn
Decode(raw, i) == << raw[2 * i - 1], raw[2 * i] >>

\* Variant of PushLoop: the batch is walked from its last sample to its first.
RECURSIVE PushLoop_Reversed(_, _, _)
PushLoop_Reversed(buf, raw, count) ==
  IF count = 0 THEN buf
  ELSE PushLoop_Reversed(push_back(buf, Decode(raw, count)), raw, count - 1)

\* for (i = 0; i < to_copy; i++) _fifo->push_back(...)
RECURSIVE PushLoop(_, _, _)
PushLoop(buf, raw, count) ==
  IF count = 0 THEN buf
  ELSE push_back(PushLoop(buf, raw, count - 1), Decode(raw, count))

\* Variant of MustWait: the loop ends one sample early.
MustWait_OffByOne(avail, n) == avail + 1 < n

\* while (n_samples_avail < noutput_items)
MustWait(avail, n) == avail < n

\* Variant of PopLoop: pop_front() comes before the read of at(0).
RECURSIVE PopLoop_PopFirst(_, _)
PopLoop_PopFirst(buf, n) ==
  IF n = 0 THEN [buf |-> buf, out |-> << >>, under |-> FALSE]
  ELSE IF Len(buf) < 2
       THEN [buf |-> << >>, out |-> << >>, under |-> TRUE]
       ELSE LET r == PopLoop_PopFirst(Tail(buf), n - 1)
            IN  [buf |-> r.buf, out |-> << buf[2] >> \o r.out, under |-> r.under]

\* for (i = 0; i < noutput_items; ++i) { out[i] = _fifo->at(0); _fifo->pop_front(); }
\* A pop from an empty buffer breaks the container's precondition: it is
\* recorded in under, and yields no sample.
RECURSIVE PopLoop(_, _)
PopLoop(buf, n) ==
  IF n = 0 THEN [buf |-> buf, out |-> << >>, under |-> FALSE]
  ELSE IF buf = << >>
       THEN [buf |-> buf, out |-> << >>, under |-> TRUE]
       ELSE LET r == PopLoop(Tail(buf), n - 1)
            IN  [buf |-> r.buf, out |-> << Head(buf) >> \o r.out, under |-> r.under]

----------------------------------------------------------------------------
\* The control surface: rates, ranges and the frequency correction.

\* The rates airspy_get_samplerates reports, in the device's order.
DeviceRates == << 10000000, 2500000 >>

\* _sample_rates.push_back( std::pair<double, uint32_t>( samplerates[i], i ) )
RatePairs == [i \in 1..Len(DeviceRates) |-> << DeviceRates[i], i - 1 >>]

\* operator< of std::pair
PairLess(a, b) == a[1] < b[1] \/ (a[1] = b[1] /\ a[2] < b[2])

RECURSIVE Insert(_, _)
Insert(sorted, x) ==
  IF sorted = << >> THEN << x >>
  ELSE IF PairLess(x, Head(sorted)) THEN << x >> \o sorted
       ELSE << Head(sorted) >> \o Insert(Tail(sorted), x)

RECURSIVE Sort(_)
Sort(seq) == IF seq = << >> THEN << >> ELSE Insert(Sort(Tail(seq)), Head(seq))

\* _sample_rates after std::sort: pairs of rate and device index, by rate
sample_rates == Sort(RatePairs)

\* Variant of FindRate: any rate is taken as supported, with the first index.
FindRate_AnyRate(rate) == [found |-> TRUE, index |-> sample_rates[1][2]]

\* The loop of set_sample_rate: the last exact match gives the index.
FindRate(rate) ==
  LET matches == { i \in 1..Len(sample_rates) : sample_rates[i][1] = rate }
  IN  IF matches = {}
      THEN [found |-> FALSE, index |-> 0]
      ELSE [found |-> TRUE,
            index |-> sample_rates[CHOOSE i \in matches : \A j \in matches : j <= i][2]]

\* get_freq_range(): range_t( 24e6, 1766e6 )
get_freq_range == [start |-> 24000000, stop |-> 1766000000]

\* get_gain_range( chan ): gain_range_t( 0, 21, 1 )
get_gain_range == [start |-> 0, stop |-> 21]

\* get_gain_range( name, chan ) for "LNA", "MIX" and "IF": gain_range_t( 0, 15, 1 )
get_stage_gain_range == [start |-> 0, stop |-> 15]

\* meta_range_t::clip( value, true ) for a range of step 1 and a whole value
clip(range, value) ==
  IF value < range.start THEN range.start
  ELSE IF value > range.stop THEN range.stop
       ELSE value

\* 0.000001 of APPLY_PPM_CORR, as its reciprocal
PpmScale == 1000000

\* Variant of APPLY_PPM_CORR: the correction is added as if it were in Hz.
APPLY_PPM_CORR_Additive(val, ppm) == val + ppm

\* uint64_t( APPLY_PPM_CORR( val, ppm ) ): (val) * (1.0 + (ppm) * 0.000001),
\* truncated to whole Hz, in whole numbers that stay within 32 bits.
APPLY_PPM_CORR(val, ppm) ==
  (val \div PpmScale) * (PpmScale + ppm) + (val % PpmScale)
    + ((val % PpmScale) * ppm) \div PpmScale

\* What _gain, which no constructor initialises, may hold.
UninitGain == {0, 99}

\* The arguments of the control calls.
Rates == {2500000, 10000000, 3000000}
Freqs == {100050000, 24000001}
Ppms  == {-10, 10}
Gains == {3, 20}

----------------------------------------------------------------------------
Init ==
  /\ dev = OPEN
  /\ streaming = FALSE
  /\ fifo = << >>
  /\ fifo_freed = FALSE
  /\ fifo_lock = NONE
  /\ ppc = "idle"
  /\ samples = << >>
  /\ num_samples = 0
  /\ to_copy = 0
  /\ notified = FALSE
  /\ overrun = FALSE
  /\ cpc = "idle"
  /\ noutput_items = 0
  /\ ret = NoReturn
  /\ ctl = "idle"
  /\ rx_ret = NONE
  /\ last = NONE
  /\ close_attempted = FALSE
  /\ produced = 0
  /\ accepted = << >>
  /\ delivered = << >>
  /\ underrun = FALSE
  /\ waited = FALSE
  /\ quiesced = FALSE
  /\ freq_corr = 0
  /\ center_freq = (get_freq_range.start + get_freq_range.stop) \div 2
  /\ sample_rate = sample_rates[1][1]
  /\ auto_gain = FALSE
  /\ gain_policy \in {"linearity", "sensitivity"}
  /\ gain \in UninitGain
  /\ lna_gain = 8
  /\ mix_gain = 5
  /\ vga_gain = 5
  /\ hw = [airspy_set_freq |-> APPLY_PPM_CORR(center_freq, freq_corr),
           airspy_set_samplerate |-> sample_rates[1][2],
           airspy_set_lna_gain |-> lna_gain,
           airspy_set_mixer_gain |-> mix_gain,
           airspy_set_vga_gain |-> vga_gain,
           airspy_set_lna_agc |-> -1,
           airspy_set_mixer_agc |-> -1,
           airspy_set_linearity_gain |-> -1,
           airspy_set_sensitivity_gain |-> -1]
  /\ call = [op |-> NONE, arg |-> 0, cmds |-> << >>, thrown |-> NONE]
  /\ ncalls = 0

----------------------------------------------------------------------------
\* The producer: airspy_rx_callback, called by the device layer's thread.

\* The device layer invokes the callback only while it is streaming, and one
\* invocation at a time.
DeviceMayCall == streaming /\ ppc = "idle"

\* The device layer calls _airspy_rx_callback with a transfer of count samples.
CallbackBegin(count) ==
  /\ DeviceMayCall
  /\ produced + count <= MaxSamples
  /\ ppc' = "lock"
  /\ samples' = Transfer(produced, count)
  /\ num_samples' = count
  /\ to_copy' = 0
  /\ notified' = FALSE
  /\ produced' = produced + count
  /\ UNCHANGED << overrun, accepted, fifo, fifo_lock >>
  /\ UNCHANGED consumerVars
  /\ UNCHANGED lifecycleVars
  /\ UNCHANGED ctrlVars

\* _fifo_lock.lock()
CallbackLock ==
  /\ ppc = "lock"
  /\ fifo_lock = NONE
  /\ fifo_lock' = "producer"
  /\ ppc' = "push"
  /\ UNCHANGED << samples, num_samples, to_copy, notified, overrun, produced, accepted, fifo >>
  /\ UNCHANGED consumerVars
  /\ UNCHANGED lifecycleVars
  /\ UNCHANGED ctrlVars

\* Variant of CallbackPush: the push is made only once the whole batch fits.
CallbackPush_WaitForSpace ==
  /\ ppc = "push"
  /\ n_avail(fifo) >= num_samples
  /\ to_copy' = num_samples
  /\ fifo' = PushLoop(fifo, samples, num_samples)
  /\ accepted' = accepted \o Stream(produced - num_samples, num_samples)
  /\ ppc' = "unlock"
  /\ UNCHANGED << samples, num_samples, notified, overrun, produced, fifo_lock >>
  /\ UNCHANGED consumerVars
  /\ UNCHANGED lifecycleVars
  /\ UNCHANGED ctrlVars

\* n_avail, to_copy and the push loop, all under the lock.
CallbackPush ==
  /\ ppc = "push"
  /\ LET count == ToCopy(n_avail(fifo), num_samples)
     IN  /\ to_copy' = count
         /\ fifo' = PushLoop(fifo, samples, count)
         /\ accepted' = accepted \o Stream(produced - num_samples, count)
  /\ ppc' = "unlock"
  /\ UNCHANGED << samples, num_samples, notified, overrun, produced, fifo_lock >>
  /\ UNCHANGED consumerVars
  /\ UNCHANGED lifecycleVars
  /\ UNCHANGED ctrlVars

\* _fifo_lock.unlock()
CallbackUnlock ==
  /\ ppc = "unlock"
  /\ fifo_lock' = NONE
  /\ ppc' = "notify"
  /\ UNCHANGED << samples, num_samples, to_copy, notified, overrun, produced, accepted, fifo >>
  /\ UNCHANGED consumerVars
  /\ UNCHANGED lifecycleVars
  /\ UNCHANGED ctrlVars

\* Variant of CallbackNotify: notify_one() is called by every callback.
CallbackNotify_Always ==
  /\ ppc = "notify"
  /\ ppc' = "report"
  /\ notified' = TRUE
  /\ cpc' = IF cpc = "waiting" THEN "woken" ELSE cpc
  /\ UNCHANGED << samples, num_samples, to_copy, overrun, produced, accepted, fifo, fifo_lock >>
  /\ UNCHANGED << noutput_items, ret, delivered, underrun, waited >>
  /\ UNCHANGED lifecycleVars
  /\ UNCHANGED ctrlVars

\* Variant of CallbackNotify: notify_one() is called only when the whole batch
\* was pushed.
CallbackNotify_WhenWholeBatch ==
  /\ ppc = "notify"
  /\ ppc' = "report"
  /\ notified' = (to_copy # 0 /\ to_copy = num_samples)
  /\ cpc' = IF to_copy # 0 /\ to_copy = num_samples /\ cpc = "waiting" THEN "woken" ELSE cpc
  /\ UNCHANGED << samples, num_samples, to_copy, overrun, produced, accepted, fifo, fifo_lock >>
  /\ UNCHANGED << noutput_items, ret, delivered, underrun, waited >>
  /\ UNCHANGED lifecycleVars
  /\ UNCHANGED ctrlVars

\* if (to_copy) _samp_avail.notify_one(): wakes the consumer if it is waiting.
CallbackNotify ==
  /\ ppc = "notify"
  /\ ppc' = "report"
  /\ notified' = (to_copy # 0)
  /\ cpc' = IF to_copy # 0 /\ cpc = "waiting" THEN "woken" ELSE cpc
  /\ UNCHANGED << samples, num_samples, to_copy, overrun, produced, accepted, fifo, fifo_lock >>
  /\ UNCHANGED << noutput_items, ret, delivered, underrun, waited >>
  /\ UNCHANGED lifecycleVars
  /\ UNCHANGED ctrlVars

\* if (to_copy < num_samples) std::cerr << "O"; return 0;
CallbackReturn ==
  /\ ppc = "report"
  /\ overrun' = (to_copy < num_samples)
  /\ ppc' = "idle"
  /\ samples' = << >>
  /\ num_samples' = 0
  /\ to_copy' = 0
  /\ notified' = FALSE
  /\ UNCHANGED << produced, accepted, fifo, fifo_lock >>
  /\ UNCHANGED consumerVars
  /\ UNCHANGED lifecycleVars
  /\ UNCHANGED ctrlVars

ProducerStep ==
  CallbackLock \/ CallbackPush \/ CallbackUnlock \/ CallbackNotify \/ CallbackReturn

----------------------------------------------------------------------------
\* The consumer: work(), called by the scheduler's thread.

\* Variant of running: the device is not asked whether it streams.
running_HandleOnly == dev # NULL

\* if (_dev) running = (airspy_is_streaming(_dev) == AIRSPY_TRUE)
running == dev # NULL /\ streaming

\* The lifecycle caller is inside ~airspy_source_c(), or has left it.
InDestructor ==
  ctl \in {"dtor_stop", "dtor_close", "dtor_free", "dtor_done", "dtor_thrown"}

\* The scheduler calls work() for n items; no call is made once the block is
\* being destroyed.
WorkCall(n) ==
  /\ cpc = "idle"
  /\ ~InDestructor
  /\ cpc' = "check"
  /\ noutput_items' = n
  /\ ret' = NoReturn
  /\ waited' = FALSE
  /\ UNCHANGED << delivered, underrun, fifo, fifo_lock >>
  /\ UNCHANGED producerVars
  /\ UNCHANGED lifecycleVars
  /\ UNCHANGED ctrlVars

\* if (!running) return WORK_DONE;
WorkCheck ==
  /\ cpc = "check"
  /\ IF running
     THEN /\ cpc' = "acquire"
          /\ UNCHANGED << noutput_items, ret >>
     ELSE /\ cpc' = "idle"
          /\ ret' = WORK_DONE
          /\ noutput_items' = 0
  /\ UNCHANGED << delivered, underrun, waited, fifo, fifo_lock >>
  /\ UNCHANGED producerVars
  /\ UNCHANGED lifecycleVars
  /\ UNCHANGED ctrlVars

\* boost::unique_lock<boost::mutex> lock(_fifo_lock), and the lock taken
\* again when wait() returns.
WorkLock ==
  /\ cpc \in {"acquire", "woken"}
  /\ fifo_lock = NONE
  /\ fifo_lock' = "consumer"
  /\ cpc' = "test"
  /\ UNCHANGED << noutput_items, ret, delivered, underrun, waited, fifo >>
  /\ UNCHANGED producerVars
  /\ UNCHANGED lifecycleVars
  /\ UNCHANGED ctrlVars

\* Variant of WorkTest: the consumer suspends with the lock still held.
WorkTest_KeepLock ==
  /\ cpc = "test"
  /\ IF MustWait(Len(fifo), noutput_items)
     THEN /\ cpc' = "waiting"
          /\ waited' = TRUE
     ELSE /\ cpc' = "copy"
          /\ UNCHANGED waited
  /\ UNCHANGED << fifo_lock, noutput_items, ret, delivered, underrun, fifo >>
  /\ UNCHANGED producerVars
  /\ UNCHANGED lifecycleVars
  /\ UNCHANGED ctrlVars

\* n_samples_avail = _fifo->size(), and the loop's test; wait() releases the
\* lock and suspends in one step.
WorkTest ==
  /\ cpc = "test"
  /\ IF MustWait(Len(fifo), noutput_items)
     THEN /\ cpc' = "waiting"
          /\ fifo_lock' = NONE
          /\ waited' = TRUE
     ELSE /\ cpc' = "copy"
          /\ UNCHANGED << fifo_lock, waited >>
  /\ UNCHANGED << noutput_items, ret, delivered, underrun, fifo >>
  /\ UNCHANGED producerVars
  /\ UNCHANGED lifecycleVars
  /\ UNCHANGED ctrlVars

\* A condition variable may wake its waiter without a notify.
SpuriousWake ==
  /\ cpc = "waiting"
  /\ cpc' = "woken"
  /\ UNCHANGED << noutput_items, ret, delivered, underrun, waited, fifo, fifo_lock >>
  /\ UNCHANGED producerVars
  /\ UNCHANGED lifecycleVars
  /\ UNCHANGED ctrlVars

\* The copy loop, return noutput_items, and the unique_lock's release.
WorkCopy ==
  /\ cpc = "copy"
  /\ LET r == PopLoop(fifo, noutput_items)
     IN  /\ fifo' = r.buf
         /\ delivered' = delivered \o r.out
         /\ underrun' = (underrun \/ r.under)
  /\ ret' = Items(noutput_items)
  /\ noutput_items' = 0
  /\ fifo_lock' = NONE
  /\ cpc' = "idle"
  /\ UNCHANGED waited
  /\ UNCHANGED producerVars
  /\ UNCHANGED lifecycleVars
  /\ UNCHANGED ctrlVars

ConsumerStep == WorkCheck \/ WorkLock \/ WorkTest \/ WorkCopy

----------------------------------------------------------------------------
\* The lifecycle caller: start(), stop() and the destructor, one at a time.

\* airspy_start_rx: the device layer accepts the request only when it is not
\* streaming already, and may reject it.
StartRxOutcomes == IF streaming THEN {AIRSPY_ERROR} ELSE Ret

\* Variant of StartResult: the return value of airspy_start_rx is ignored.
StartResult_IgnoreRet(r) == IF dev = NULL THEN "start_false" ELSE "start_true"

\* start(): false without a handle or when airspy_start_rx fails, else true.
StartResult(r) ==
  IF dev = NULL THEN "start_false"
  ELSE IF r # AIRSPY_SUCCESS THEN "start_false" ELSE "start_true"

Start(r) ==
  /\ ctl = "idle"
  /\ r \in StartRxOutcomes
  /\ last' = StartResult(r)
  /\ streaming' = IF dev # NULL /\ r = AIRSPY_SUCCESS THEN TRUE ELSE streaming
  /\ quiesced' = IF StartResult(r) = "start_true" THEN FALSE ELSE quiesced
  /\ UNCHANGED << dev, fifo_freed, ctl, rx_ret, close_attempted, fifo, fifo_lock >>
  /\ UNCHANGED producerVars
  /\ UNCHANGED consumerVars
  /\ UNCHANGED ctrlVars

\* airspy_stop_rx as the device layer performs it: on success the device no
\* longer streams, so no callback begins, and the call returns once the
\* callback in flight has returned; on failure the device is as it was.
StopRx(r) ==
  /\ rx_ret' = r
  /\ streaming' = IF r = AIRSPY_SUCCESS THEN FALSE ELSE streaming

StopRxReturns == rx_ret = AIRSPY_SUCCESS => ppc = "idle"

\* stop(): if (!_dev) return false; ret = airspy_stop_rx(_dev);
StopCall(r) ==
  /\ ctl = "idle"
  /\ IF dev = NULL
     THEN /\ last' = "stop_false"
          /\ UNCHANGED << ctl, rx_ret, streaming >>
     ELSE /\ ctl' = "stop_rx"
          /\ StopRx(r)
          /\ UNCHANGED last
  /\ UNCHANGED << dev, fifo_freed, close_attempted, quiesced, fifo, fifo_lock >>
  /\ UNCHANGED producerVars
  /\ UNCHANGED consumerVars
  /\ UNCHANGED ctrlVars

\* Variant of StopResult: the return value of airspy_stop_rx is ignored.
StopResult_AlwaysTrue(r) == "stop_true"

\* if (ret != AIRSPY_SUCCESS) return false; return true;
StopResult(r) == IF r # AIRSPY_SUCCESS THEN "stop_false" ELSE "stop_true"

StopReturn ==
  /\ ctl = "stop_rx"
  /\ StopRxReturns
  /\ last' = StopResult(rx_ret)
  /\ quiesced' = IF StopResult(rx_ret) = "stop_true" THEN TRUE ELSE quiesced
  /\ ctl' = "idle"
  /\ rx_ret' = NONE
  /\ UNCHANGED << dev, streaming, fifo_freed, close_attempted, fifo, fifo_lock >>
  /\ UNCHANGED producerVars
  /\ UNCHANGED consumerVars
  /\ UNCHANGED ctrlVars

\* Variant of DtorMustStop: the destructor goes straight to airspy_close.
DtorMustStop_Never == FALSE

\* The destructor's test: airspy_is_streaming(_dev) == AIRSPY_TRUE
DtorMustStop == streaming

\* ~airspy_source_c(), entered once the scheduler's thread has left work():
\* if (_dev) { if (streaming) ret = airspy_stop_rx(_dev); ... }
DtorBegin(r) ==
  /\ ctl = "idle"
  /\ cpc = "idle"
  /\ IF dev = NULL
     THEN /\ ctl' = "dtor_free"
          /\ UNCHANGED << rx_ret, streaming >>
     ELSE IF DtorMustStop
          THEN /\ ctl' = "dtor_stop"
               /\ StopRx(r)
          ELSE /\ ctl' = "dtor_close"
               /\ UNCHANGED << rx_ret, streaming >>
  /\ UNCHANGED << dev, fifo_freed, last, close_attempted, quiesced, fifo, fifo_lock >>
  /\ UNCHANGED producerVars
  /\ UNCHANGED consumerVars
  /\ UNCHANGED ctrlVars

\* AIRSPY_THROW_ON_ERROR(ret, "Failed to stop RX streaming"): the exception
\* leaves the destructor, and nothing after it is executed.
DtorStopReturn ==
  /\ ctl = "dtor_stop"
  /\ StopRxReturns
  /\ IF rx_ret # AIRSPY_SUCCESS
     THEN /\ ctl' = "dtor_thrown"
          /\ last' = "dtor_stop_failed"
     ELSE /\ ctl' = "dtor_close"
          /\ last' = "dtor_stopped"
  /\ rx_ret' = NONE
  /\ UNCHANGED << dev, streaming, fifo_freed, close_attempted, quiesced, fifo, fifo_lock >>
  /\ UNCHANGED producerVars
  /\ UNCHANGED consumerVars
  /\ UNCHANGED ctrlVars

\* ret = airspy_close(_dev); AIRSPY_THROW_ON_ERROR(...); _dev = NULL;
DtorClose(r) ==
  /\ ctl = "dtor_close"
  /\ r \in Ret
  /\ close_attempted' = TRUE
  /\ IF r # AIRSPY_SUCCESS
     THEN /\ ctl' = "dtor_thrown"
          /\ UNCHANGED dev
     ELSE /\ ctl' = "dtor_free"
          /\ dev' = NULL
  /\ UNCHANGED << streaming, fifo_freed, rx_ret, last, quiesced, fifo, fifo_lock >>
  /\ UNCHANGED producerVars
  /\ UNCHANGED consumerVars
  /\ UNCHANGED ctrlVars

\* if (_fifo) { delete _fifo; _fifo = NULL; }
DtorFree ==
  /\ ctl = "dtor_free"
  /\ ctl' = "dtor_done"
  /\ fifo_freed' = TRUE
  /\ fifo' = << >>
  /\ UNCHANGED << dev, streaming, rx_ret, last, close_attempted, quiesced, fifo_lock >>
  /\ UNCHANGED producerVars
  /\ UNCHANGED consumerVars
  /\ UNCHANGED ctrlVars

LifecycleStep == StopReturn \/ DtorStopReturn \/ (\E r \in Ret : DtorClose(r)) \/ DtorFree

----------------------------------------------------------------------------
\* The control surface: the setters, each a whole call.  A call works on a
\* record s of the cached fields, the tuner's settings, the device commands
\* issued so far in the call and the error thrown, if any.

MaxCalls == 3

Begin ==
  [sample_rate |-> sample_rate, center_freq |-> center_freq, freq_corr |-> freq_corr,
   auto_gain |-> auto_gain, gain_policy |-> gain_policy, gain |-> gain,
   lna_gain |-> lna_gain, mix_gain |-> mix_gain, vga_gain |-> vga_gain,
   hw |-> hw, cmds |-> << >>, thrown |-> NONE]

\* ret = airspy_set_...( _dev, value ): the command is issued, and the tuner
\* keeps the value when it answers AIRSPY_SUCCESS.
Command(s, cmd, value, r) ==
  [s EXCEPT !.cmds = Append(@, [cmd |-> cmd, value |-> value, ret |-> r]),
            !.hw = IF r = AIRSPY_SUCCESS THEN [@ EXCEPT ![cmd] = value] ELSE @]

\* AIRSPY_THROW_ON_ERROR, and the throw of set_sample_rate
Throw(s, what) == [s EXCEPT !.thrown = what]

SetSampleRate(s, rate, r) ==
  IF dev = NULL THEN s
  ELSE LET f == FindRate(rate)
           t == Command(s, "airspy_set_samplerate", f.index, r)
       IN  IF ~f.found THEN Throw(s, "Unsupported samplerate")
           ELSE IF r = AIRSPY_SUCCESS THEN [t EXCEPT !.sample_rate = rate]
                ELSE Throw(t, "airspy_set_samplerate")

SetCenterFreq(s, freq, r) ==
  IF dev = NULL THEN s
  ELSE LET t == Command(s, "airspy_set_freq", APPLY_PPM_CORR(freq, s.freq_corr), r)
       IN  IF r = AIRSPY_SUCCESS THEN [t EXCEPT !.center_freq = freq]
           ELSE Throw(t, "airspy_set_freq")

\* _freq_corr = ppm; set_center_freq( _center_freq );
SetFreqCorr(s, ppm, r) == SetCenterFreq([s EXCEPT !.freq_corr = ppm], s.center_freq, r)

SetLnaGain(s, g, r) ==
  IF dev = NULL THEN s
  ELSE LET clip_gain == clip(get_stage_gain_range, g)
           t == Command(s, "airspy_set_lna_gain", clip_gain, r)
       IN  IF r = AIRSPY_SUCCESS THEN [t EXCEPT !.lna_gain = clip_gain]
           ELSE Throw(t, "airspy_set_lna_gain")

SetMixGain(s, g, r) ==
  IF dev = NULL THEN s
  ELSE LET clip_gain == clip(get_stage_gain_range, g)
           t == Command(s, "airspy_set_mixer_gain", clip_gain, r)
       IN  IF r = AIRSPY_SUCCESS THEN [t EXCEPT !.mix_gain = clip_gain]
           ELSE Throw(t, "airspy_set_mixer_gain")

SetIfGain(s, g, r) ==
  IF dev = NULL THEN s
  ELSE LET clip_gain == clip(get_stage_gain_range, g)
           t == Command(s, "airspy_set_vga_gain", clip_gain, r)
       IN  IF r = AIRSPY_SUCCESS THEN [t EXCEPT !.vga_gain = clip_gain]
           ELSE Throw(t, "airspy_set_vga_gain")

SetGain(s, g, r) ==
  IF dev = NULL THEN s
  ELSE LET clip_gain == clip(get_gain_range, g)
           cmd == IF s.gain_policy = "linearity" THEN "airspy_set_linearity_gain"
                  ELSE "airspy_set_sensitivity_gain"
           t == Command(s, cmd, clip_gain, r)
       IN  IF r = AIRSPY_SUCCESS THEN [t EXCEPT !.gain = clip_gain]
           ELSE Throw(t, cmd)

\* The answers of the two AGC commands are not looked at; a throw of
\* set_lna_gain or set_mix_gain leaves the rest of the call undone.
SetGainMode(s, automatic, r1, r2, r3, r4) ==
  IF automatic
  THEN [Command(Command(s, "airspy_set_lna_agc", 1, r1), "airspy_set_mixer_agc", 1, r2)
          EXCEPT !.auto_gain = TRUE]
  ELSE LET t == Command(Command(s, "airspy_set_lna_agc", 0, r1), "airspy_set_mixer_agc", 0, r2)
           u == SetLnaGain(t, t.lna_gain, r3)
           v == SetMixGain(u, u.mix_gain, r4)
       IN  IF u.thrown # NONE THEN u
           ELSE IF v.thrown # NONE THEN v
                ELSE [v EXCEPT !.auto_gain = FALSE]

\* A setter may be called while the block is not being destroyed.
CanCall == ~InDestructor /\ ncalls < MaxCalls

\* The call returns or throws: s is what it leaves behind.
Commit(op, arg, s) ==
  /\ ncalls' = ncalls + 1
  /\ sample_rate' = s.sample_rate
  /\ center_freq' = s.center_freq
  /\ freq_corr' = s.freq_corr
  /\ auto_gain' = s.auto_gain
  /\ gain_policy' = s.gain_policy
  /\ gain' = s.gain
  /\ lna_gain' = s.lna_gain
  /\ mix_gain' = s.mix_gain
  /\ vga_gain' = s.vga_gain
  /\ hw' = s.hw
  /\ call' = [op |-> op, arg |-> arg, cmds |-> s.cmds, thrown |-> s.thrown]
  /\ UNCHANGED << fifo, fifo_lock >>
  /\ UNCHANGED producerVars
  /\ UNCHANGED consumerVars
  /\ UNCHANGED lifecycleVars

set_sample_rate(rate, r) ==
  /\ CanCall
  /\ Commit("set_sample_rate", rate, SetSampleRate(Begin, rate, r))

set_center_freq(freq, r) ==
  /\ CanCall
  /\ Commit("set_center_freq", freq, SetCenterFreq(Begin, freq, r))

set_freq_corr(ppm, r) ==
  /\ CanCall
  /\ Commit("set_freq_corr", ppm, SetFreqCorr(Begin, ppm, r))

set_gain(g, r) ==
  /\ CanCall
  /\ Commit("set_gain", g, SetGain(Begin, g, r))

set_lna_gain(g, r) ==
  /\ CanCall
  /\ Commit("set_lna_gain", g, SetLnaGain(Begin, g, r))

set_mix_gain(g, r) ==
  /\ CanCall
  /\ Commit("set_mix_gain", g, SetMixGain(Begin, g, r))

set_if_gain(g, r) ==
  /\ CanCall
  /\ Commit("set_if_gain", g, SetIfGain(Begin, g, r))

\* call.arg is 1 for automatic and 0 for manual.
set_gain_mode(automatic, r1, r2, r3, r4) ==
  /\ CanCall
  /\ Commit("set_gain_mode", IF automatic THEN 1 ELSE 0,
            SetGainMode(Begin, automatic, r1, r2, r3, r4))

CtlNext ==
  \/ \E rate \in Rates, r \in Ret : set_sample_rate(rate, r)
  \/ \E freq \in Freqs, r \in Ret : set_center_freq(freq, r)
  \/ \E ppm \in Ppms, r \in Ret : set_freq_corr(ppm, r)
  \/ \E g \in Gains, r \in Ret : set_gain(g, r)
  \/ \E g \in Gains, r \in Ret : set_lna_gain(g, r)
  \/ \E g \in Gains, r \in Ret : set_mix_gain(g, r)
  \/ \E g \in Gains, r \in Ret : set_if_gain(g, r)
  \/ \E automatic \in BOOLEAN, r1, r2, r3, r4 \in Ret :
       set_gain_mode(automatic, r1, r2, r3, r4)

\* The control calls alone, on a session that is neither started nor destroyed.
CtlSpec == Init /\ [][CtlNext]_vars

----------------------------------------------------------------------------
Next ==
  \/ \E count \in 0..MaxBatch : CallbackBegin(count)
  \/ CallbackLock
  \/ CallbackPush
  \/ CallbackUnlock
  \/ CallbackNotify
  \/ CallbackReturn
  \/ \E n \in BlockSizes : WorkCall(n)
  \/ WorkCheck
  \/ WorkLock
  \/ WorkTest
  \/ SpuriousWake
  \/ WorkCopy
  \/ \E r \in Ret : Start(r)
  \/ \E r \in Ret : StopCall(r)
  \/ StopReturn
  \/ \E r \in Ret : DtorBegin(r)
  \/ DtorStopReturn
  \/ \E r \in Ret : DtorClose(r)
  \/ DtorFree

Spec == Init /\ [][Next]_vars

\* The threads are scheduled fairly: a thread inside a call takes its next
\* step when it can, and a thread that asks for the mutex again and again
\* gets it.  No call is ever owed by the environment (callbacks, work(),
\* start(), stop(), the destructor), nor a spurious wake-up.
FairSpec ==
  /\ Spec
  /\ SF_vars(ProducerStep)
  /\ SF_vars(ConsumerStep)
  /\ WF_vars(LifecycleStep)

----------------------------------------------------------------------------
\* A session that is started and never stopped, with a device that delivers
\* transfers without end.  The steps are those of the callback and of work()
\* above; the records of what was produced, accepted and delivered are left
\* empty, because they would grow without bound.

\* The device layer calls _airspy_rx_callback with a transfer of count samples.
LiveCallbackBegin(count) ==
  /\ DeviceMayCall
  /\ ppc' = "lock"
  /\ samples' = Transfer(0, count)
  /\ num_samples' = count
  /\ to_copy' = 0
  /\ notified' = FALSE
  /\ UNCHANGED << overrun, produced, accepted, fifo, fifo_lock >>
  /\ UNCHANGED consumerVars
  /\ UNCHANGED lifecycleVars
  /\ UNCHANGED ctrlVars

\* n_avail, to_copy and the push loop, all under the lock.
LiveCallbackPush ==
  /\ ppc = "push"
  /\ LET count == ToCopy(n_avail(fifo), num_samples)
     IN  /\ to_copy' = count
         /\ fifo' = PushLoop(fifo, samples, count)
  /\ ppc' = "unlock"
  /\ UNCHANGED << samples, num_samples, notified, overrun, produced, accepted, fifo_lock >>
  /\ UNCHANGED consumerVars
  /\ UNCHANGED lifecycleVars
  /\ UNCHANGED ctrlVars

\* The copy loop, return noutput_items, and the unique_lock's release.
LiveWorkCopy ==
  /\ cpc = "copy"
  /\ LET r == PopLoop(fifo, noutput_items)
     IN  /\ fifo' = r.buf
         /\ underrun' = (underrun \/ r.under)
  /\ ret' = Items(noutput_items)
  /\ noutput_items' = 0
  /\ fifo_lock' = NONE
  /\ cpc' = "idle"
  /\ UNCHANGED << waited, delivered >>
  /\ UNCHANGED producerVars
  /\ UNCHANGED lifecycleVars
  /\ UNCHANGED ctrlVars

LiveDeliver == \E count \in 1..MaxBatch : LiveCallbackBegin(count)

LiveProducerStep ==
  CallbackLock \/ LiveCallbackPush \/ CallbackUnlock \/ CallbackNotify \/ CallbackReturn

LiveConsumerStep == WorkCheck \/ WorkLock \/ WorkTest \/ LiveWorkCopy

LiveNext ==
  \/ \E count \in 0..MaxBatch : LiveCallbackBegin(count)
  \/ CallbackLock
  \/ LiveCallbackPush
  \/ CallbackUnlock
  \/ CallbackNotify
  \/ CallbackReturn
  \/ \E n \in BlockSizes : WorkCall(n)
  \/ WorkCheck
  \/ WorkLock
  \/ WorkTest
  \/ SpuriousWake
  \/ LiveWorkCopy
  \/ \E r \in Ret : Start(r)

\* Both threads are scheduled fairly and get the mutex when they keep asking
\* for it, and the streaming device delivers a non-empty transfer again and
\* again.  No call of work() or start() is owed, nor a spurious wake-up.
LiveSpec ==
  /\ Init
  /\ [][LiveNext]_vars
  /\ SF_vars(LiveDeliver)
  /\ SF_vars(LiveProducerStep)
  /\ SF_vars(LiveConsumerStep)

----------------------------------------------------------------------------
\* Properties.

Min(a, b) == IF a < b THEN a ELSE b

\* The device's samples that were accepted appear in the order delivered,
\* each at most once.
RECURSIVE Increasing(_)
Increasing(s) ==
  \/ Len(s) < 2
  \/ /\ s[1][1] < s[2][1]
     /\ Increasing(Tail(s))

\* C1: whatever the interleaving of callbacks and pulls, the samples pulled so
\* far followed by the samples still buffered are exactly the samples the
\* callbacks accepted, in the order accepted; the accepted samples are the
\* device's samples in the device's order, none twice.
C1_FifoOrder ==
  /\ ~fifo_freed => delivered \o fifo = accepted
  /\ Increasing(accepted)
  /\ \A i \in 1..Len(accepted) : \E k \in 1..produced : accepted[i] = Complex(k)

\* C1's case: a batch was truncated, later samples were accepted behind the
\* gap, a pull has returned samples and others are still buffered.
C1_Witness ==
  /\ accepted # Stream(0, Len(accepted))
  /\ delivered # << >>
  /\ fifo # << >>
  /\ ~fifo_freed

\* C2: the buffer never holds more than Capacity samples, and no pull pops
\* from an empty buffer.
C2_SizeInRange ==
  /\ Len(fifo) \in 0..Capacity
  /\ ~underrun

\* C2's case: the buffer is full after a truncated batch and a pull that waited.
C2_Witness ==
  /\ Len(fifo) = Capacity
  /\ overrun
  /\ waited
  /\ ret.kind = "items"

\* C4: the push of a batch of L samples into a buffer with F free slots
\* appends the first min(L, F) samples of the batch; when L > F the buffer is
\* then full; the callback reports an overrun on return exactly when L > F.
C4_PushAccepts ==
  [][ /\ (ppc = "push" /\ ppc' # "push") =>
           LET F == Capacity - Len(fifo)
               L == num_samples
           IN  /\ to_copy' = Min(L, F)
               /\ fifo' = fifo \o Stream(produced - L, Min(L, F))
               /\ (to_copy' < num_samples') = (L > F)
               /\ (L > F) => Len(fifo') = Capacity
      /\ (ppc \in {"unlock", "notify"} /\ ppc' # ppc) =>
           /\ to_copy' = to_copy
           /\ num_samples' = num_samples
      /\ (ppc = "report" /\ ppc' # "report") =>
           overrun' = (to_copy < num_samples)
    ]_vars

\* C4's case: a batch longer than the capacity has been pushed into the empty
\* buffer, which now holds its first Capacity samples.
C4_Witness ==
  /\ ppc = "unlock"
  /\ num_samples > Capacity
  /\ to_copy = Capacity
  /\ fifo = Stream(produced - num_samples, Capacity)

\* C5: a pull for n samples that has passed the streaming test returns only
\* from its copy loop, which runs only with at least n samples buffered; it
\* returns n, delivers the n oldest samples in order and leaves the rest.
C5_PullExact ==
  [][ /\ (cpc \in {"acquire", "test", "waiting", "woken", "copy"} /\ cpc' = "idle") =>
           cpc = "copy"
      /\ (cpc = "test" /\ cpc' = "copy") => Len(fifo) >= noutput_items
      /\ (cpc = "copy" /\ cpc' # "copy") =>
           /\ Len(fifo) >= noutput_items
           /\ ret' = Items(noutput_items)
           /\ delivered' = delivered \o SubSeq(fifo, 1, noutput_items)
           /\ fifo' = SubSeq(fifo, noutput_items + 1, Len(fifo))
           /\ Len(fifo') = Len(fifo) - noutput_items
    ]_vars

\* C5's case: a pull that had to wait has returned its block and left samples
\* behind.
C5_Witness ==
  /\ cpc = "idle"
  /\ waited
  /\ ret.kind = "items"
  /\ fifo # << >>
  /\ Len(delivered) >= ret.items

\* C3: once stop() has returned true, a consumer suspended in work() comes
\* back with WORK_DONE (unless start() succeeds again before it does).
C3_StopUnblocksPull ==
  (quiesced /\ cpc = "waiting") ~> (~quiesced \/ (cpc = "idle" /\ ret = WORK_DONE))

\* C6: a callback in progress can always take its next step, whatever the
\* fill level and whether or not the consumer is suspended; the one thing it
\* may have to wait for is the mutex, and then the consumer holds it inside
\* its own critical section, not suspended, and can itself take a step.
C6_ProducerNeverBlocks ==
  ppc # "idle" =>
    \/ ENABLED ProducerStep
    \/ /\ ppc = "lock"
       /\ fifo_lock = "consumer"
       /\ cpc \in {"test", "copy"}
       /\ ENABLED ConsumerStep

\* C6's case: the callback is about to push into a full buffer while the
\* consumer is suspended in wait().
C6_Witness ==
  /\ ppc = "push"
  /\ Len(fifo) = Capacity
  /\ num_samples > 0
  /\ cpc = "waiting"

\* C7: from the return of a successful stop() to the next successful start()
\* the device does not stream, no callback is in progress, and no step
\* accepts a sample or grows the buffer.
C7_NoSamplesAfterStop ==
  /\ [](quiesced => (~streaming /\ ppc = "idle"))
  /\ [][ (quiesced /\ quiesced') =>
           /\ accepted' = accepted
           /\ Len(fifo') <= Len(fifo)
           /\ ppc' = "idle" ]_vars

\* C7's case: stop() has returned true with samples buffered and the device
\* still having samples to deliver.
C7_Witness ==
  /\ quiesced
  /\ last = "stop_true"
  /\ fifo # << >>
  /\ produced < MaxSamples

\* C8: the handle is closed and the buffer freed only when the device does not
\* stream and no callback is in progress; the buffer is freed only after the
\* handle has been released.
C8_TeardownAfterQuiescence ==
  /\ (ctl \in {"dtor_close", "dtor_free", "dtor_done"} \/ close_attempted \/ fifo_freed)
        => (~streaming /\ ppc = "idle")
  /\ fifo_freed => dev = NULL
  /\ dev = NULL => close_attempted

\* C8's case: the destructor found the device streaming, stopped it, closed
\* the handle and freed the buffer.
C8_Witness ==
  /\ ctl = "dtor_done"
  /\ last = "dtor_stopped"
  /\ fifo_freed
  /\ accepted # << >>

\* C9: when the destructor is over, however its stop and close steps ended,
\* airspy_close has been attempted and the buffer has been freed.
C9_TeardownReleases ==
  ctl \in {"dtor_done", "dtor_thrown"} => (close_attempted /\ fifo_freed)

\* C10: work() entered without a handle or with the device not streaming
\* returns WORK_DONE in its next step, taking no lock and leaving the buffer
\* and the delivered samples as they were.
C10_NotStreamingPull ==
  [][ (cpc = "check" /\ cpc' # "check" /\ ~(dev # NULL /\ streaming)) =>
        /\ cpc' = "idle"
        /\ ret' = WORK_DONE
        /\ fifo' = fifo
        /\ delivered' = delivered
        /\ fifo_lock' = fifo_lock
        /\ ~waited' ]_vars

\* C10's case: a pull has returned WORK_DONE after a successful stop() while
\* the buffer holds samples.
C10_Witness ==
  /\ cpc = "idle"
  /\ ret = WORK_DONE
  /\ quiesced
  /\ fifo # << >>

\* C11: no pull for more samples than the buffer can ever hold gets as far as
\* the wait for samples.
C11_NoOversizedWait ==
  cpc = "waiting" => noutput_items <= Capacity

\* C12: start() always returns to its caller, with false or true.  When it
\* returns false the device's streaming state is as it was, so a session that
\* was not streaming is still not streaming, and no callback has begun; it
\* returns true only with a handle and on a device that was not streaming
\* and now is.
C12_StartResult ==
  [][ /\ (last' # last /\ last' = "start_false") =>
           /\ streaming' = streaming
           /\ ppc' = ppc
           /\ quiesced' = quiesced
           /\ ctl' = "idle"
      /\ (last' # last /\ last' = "start_true") =>
           /\ dev # NULL
           /\ ~streaming
           /\ streaming'
           /\ ~quiesced'
           /\ ctl' = "idle"
    ]_vars

\* C12's case: the device layer has rejected the start() of a session that
\* has never streamed.
C12_Witness ==
  /\ last = "start_false"
  /\ ~streaming
  /\ ctl = "idle"
  /\ produced = 0

\* C17: the callback is between lock() and unlock() exactly when it holds the
\* lock, work() is between taking the lock and wait() or return exactly when
\* it holds the lock, so the two are never in their critical sections
\* together and the suspended consumer holds nothing; and every step of the
\* callback or of work() that changes the buffer is taken by the lock's holder.
C17_BufferUnderLock ==
  /\ [](/\ (ppc \in {"push", "unlock"}) = (fifo_lock = "producer")
        /\ (cpc \in {"test", "copy"}) = (fifo_lock = "consumer")
        /\ ~(ppc \in {"push", "unlock"} /\ cpc \in {"test", "copy"})
        /\ cpc = "waiting" => fifo_lock # "consumer")
  /\ [][ (fifo' # fifo /\ ctl' = ctl) =>
           \/ ppc = "push" /\ ppc' = "unlock" /\ fifo_lock = "producer"
           \/ cpc = "copy" /\ cpc' = "idle" /\ fifo_lock = "consumer" ]_vars

\* C17's case: the callback holds the lock and has pushed, while the consumer
\* is suspended in wait() for more than the buffer holds.
C17_Witness ==
  /\ ppc = "unlock"
  /\ fifo_lock = "producer"
  /\ to_copy > 0
  /\ cpc = "waiting"

\* C19: the callback calls notify_one() exactly when to_copy is not 0, after
\* unlock(), and that wakes the consumer exactly when it is suspended; a
\* callback with an empty batch or a full buffer pushes nothing, leaves the
\* buffer as it was and wakes nobody.
C19_NotifyWhenAccepted ==
  [][ /\ (ppc = "notify" /\ ppc' # "notify") =>
           /\ notified' = (to_copy > 0)
           /\ fifo_lock # "producer"
           /\ (cpc' # cpc) = (to_copy > 0 /\ cpc = "waiting")
           /\ (to_copy > 0 /\ cpc = "waiting") => cpc' = "woken"
      /\ (ppc = "push" /\ ppc' # "push" /\ (num_samples = 0 \/ Len(fifo) = Capacity)) =>
           /\ to_copy' = 0
           /\ fifo' = fifo
           /\ accepted' = accepted
      /\ (notified' /\ ~notified) => ppc = "notify"
    ]_vars

\* C19's case: a callback with a non-empty batch found the buffer full, pushed
\* nothing and has passed its notify step without a wake-up, the consumer
\* still suspended.
C19_Witness ==
  /\ ppc = "report"
  /\ num_samples > 0
  /\ to_copy = 0
  /\ ~notified
  /\ Len(fifo) = Capacity
  /\ cpc = "waiting"

\* C20: whenever the consumer is suspended in wait() although the buffer holds
\* the samples it asked for, the callback that pushed them is between its push
\* and its notify_one(), which is still to come.
C20_NoLostWakeup ==
  (cpc = "waiting" /\ Len(fifo) >= noutput_items) =>
     /\ ppc \in {"unlock", "notify"}
     /\ to_copy > 0

\* C20's case: the callback has pushed the samples the suspended consumer
\* waits for, has released the lock and is about to notify.
C20_Witness ==
  /\ cpc = "waiting"
  /\ Len(fifo) >= noutput_items
  /\ ppc = "notify"
  /\ fifo_lock = NONE

\* C18: in a session that keeps streaming, with a device that keeps delivering
\* non-empty transfers and both threads scheduled fairly, every work() call for
\* n <= Capacity items that is past its running test returns n, whatever was
\* truncated or dropped before or meanwhile.
C18_PullReturnsDespiteOverruns ==
  \A n \in 1..Capacity :
    (streaming /\ cpc # "idle" /\ noutput_items = n)
       ~> (cpc = "idle" /\ ret = Items(n))

\* C18's case: a pull for the whole capacity that had to wait has returned,
\* and the callback that last returned found the buffer full and dropped its
\* whole transfer.
C18_Witness ==
  /\ cpc = "idle"
  /\ ret = Items(Capacity)
  /\ waited
  /\ overrun
  /\ streaming

\* C13: a call of one of the seven setters whose device command the hardware
\* rejected leaves every cached field with the value it had before the call.
C13_RejectedSetterKeepsCache ==
  [][ ( /\ ncalls' # ncalls
        /\ call'.op \in {"set_sample_rate", "set_center_freq", "set_freq_corr", "set_gain",
                         "set_lna_gain", "set_mix_gain", "set_if_gain"}
        /\ \E i \in 1..Len(call'.cmds) : call'.cmds[i].ret # AIRSPY_SUCCESS )
      => cachedVars' = cachedVars ]_vars

\* C14: set_sample_rate with a rate that the device did not report throws
\* "Unsupported samplerate", issues no device command, and leaves the cached
\* rate, which get_sample_rate returns, and every other setting as they were.
C14_UnsupportedRate ==
  [][ ( /\ ncalls' # ncalls
        /\ call'.op = "set_sample_rate"
        /\ call'.arg \notin { DeviceRates[i] : i \in 1..Len(DeviceRates) } )
      => /\ call'.thrown = "Unsupported samplerate"
         /\ call'.cmds = << >>
         /\ sample_rate' = sample_rate
         /\ cachedVars' = cachedVars
         /\ hw' = hw ]_vars

\* C14's case: a rate the device does not have was asked for after another
\* than the constructor's rate had been set, and that rate is still cached.
C14_Witness ==
  /\ call.op = "set_sample_rate"
  /\ call.arg \notin { DeviceRates[i] : i \in 1..Len(DeviceRates) }
  /\ call.thrown = "Unsupported samplerate"
  /\ sample_rate # sample_rates[1][1]
  /\ hw.airspy_set_samplerate = FindRate(sample_rate).index

\* f * (1 + p * 1e-6) in whole Hz, rounded down
C15_Corrected(f, p) == f + (f \div 1000000) * p + ((f % 1000000) * p) \div 1000000

C16_AutoGainDisablesManual ==
  [][ ncalls' # ncalls =>
        /\ (auto_gain /\ call'.op \in {"set_lna_gain", "set_mix_gain", "set_if_gain"}) =>
             call'.cmds = << >>
        /\ (call'.op = "set_gain_mode" /\ call'.arg = 0 /\ call'.thrown = NONE) =>
             /\ ~auto_gain'
             /\ hw'.airspy_set_lna_gain = lna_gain
             /\ hw'.airspy_set_mixer_gain = mix_gain
    ]_vars

====
